---- MODULE Spec2Model ----
(***************************************************************************)
(* Model of exercises/11_hashmaps/hashmaps3.rs (build_scores_table) and of *)
(* exercises/18_iterators/iterators3.rs (divide).                          *)
(*                                                                         *)
(* Text is a sequence of one-character strings, so that `lines`, `split`   *)
(* and `parse` are computed the way the standard library computes them.    *)
(***************************************************************************)
EXTENDS Integers, Sequences, FiniteSets, TLC

\* ---------------------------------------------------------------- bounds
\* Longest generated input, in lines.
MaxLines == 3

\* ------------------------------------------------------------ text helpers
NL == "\n"
COMMA == ","

\* Index of the first occurrence of sep in s, 0 when there is none.
RECURSIVE FirstIndex(_, _, _)
FirstIndex(s, sep, i) ==
    IF i > Len(s) THEN 0
    ELSE IF s[i] = sep THEN i
    ELSE FirstIndex(s, sep, i + 1)

\* str::split(sep): the pieces between separators; "" gives one empty piece.
RECURSIVE split(_, _)
split(s, sep) ==
    LET i == FirstIndex(s, sep, 1)
    IN  IF i = 0 THEN <<s>>
        ELSE <<SubSeq(s, 1, i - 1)>> \o split(SubSeq(s, i + 1, Len(s)), sep)

\* str::lines(): split on the line feed, a final empty piece is not a line.
lines(s) ==
    LET p == split(s, NL)
    IN  IF p[Len(p)] = <<>> THEN SubSeq(p, 1, Len(p) - 1) ELSE p

\* Width of the goal counters (u8).
U8Bits == 8
U8Max == 2 ^ U8Bits - 1

Digits == <<"0", "1", "2", "3", "4", "5", "6", "7", "8", "9">>
IsDigit(c) == \E d \in 1..10 : Digits[d] = c
DigitVal(c) == (CHOOSE d \in 1..10 : Digits[d] = c) - 1

\* Accumulate the digits of tok from position i on, as from_str_radix does:
\* a non-digit is InvalidDigit, a value past u8::MAX is PosOverflow.
RECURSIVE ParseDigits(_, _, _)
ParseDigits(tok, i, acc) ==
    IF i > Len(tok) THEN [ok |-> TRUE, val |-> acc]
    ELSE IF ~IsDigit(tok[i]) THEN [ok |-> FALSE, kind |-> "InvalidDigit"]
    ELSE IF acc * 10 + DigitVal(tok[i]) > U8Max
         THEN [ok |-> FALSE, kind |-> "PosOverflow"]
    ELSE ParseDigits(tok, i + 1, acc * 10 + DigitVal(tok[i]))

\* str::parse::<u8>(): empty text is Empty, one leading "+" is skipped, a
\* lone sign or a "-" is InvalidDigit.
parse(tok) ==
    IF tok = <<>> THEN [ok |-> FALSE, kind |-> "Empty"]
    ELSE IF tok = <<"+">> \/ tok = <<"-">>
         THEN [ok |-> FALSE, kind |-> "InvalidDigit"]
    ELSE IF tok[1] = "+" THEN ParseDigits(tok, 2, 0)
    ELSE ParseDigits(tok, 1, 0)

\* ------------------------------------------------------------- the inputs
RECURSIVE Join(_, _)
Join(pieces, sep) ==
    IF Len(pieces) = 0 THEN <<>>
    ELSE IF Len(pieces) = 1 THEN pieces[1]
    ELSE pieces[1] \o <<sep>> \o Join(Tail(pieces), sep)

TeamA == <<"A">>
TeamB == <<"B">>
TeamC == <<"C">>

\* Lines the generated inputs are made of: valid records over three teams
\* with small and large goal counts, two self-matches, and lines the parser
\* cannot take.
GeneratedLines ==
    { Join(f, COMMA) : f \in
        { <<TeamA, TeamB, <<"1">>, <<"0">> >>,
          <<TeamA, TeamC, <<"0">>, <<"2">> >>,
          <<TeamA, TeamB, <<"2", "0", "0">>, <<"1">> >>,
          <<TeamB, TeamA, <<"1">>, <<"1", "0", "0">> >>,
          <<TeamC, TeamA, <<"0">>, <<"2", "5", "5">> >>,
          <<TeamB, TeamB, <<"1">>, <<"2">> >>,
          <<TeamB, TeamB, <<"1">>, <<"2", "5", "5">> >>,
          <<TeamA, TeamB, <<"+", "1">>, <<"0", "2">> >>,
          <<TeamA, TeamB, <<"4">> >>,
          << <<>> >>,
          <<TeamA, TeamB, <<"1">>, <<"2">>, <<"9">> >>,
          <<TeamA, TeamB, <<"f", "o", "u", "r">>, <<"2">> >>,
          <<TeamA, TeamB, <<"2">>, <<"-", "1">> >> } }

RECURSIVE SeqsUpTo(_, _)
SeqsUpTo(S, n) ==
    IF n = 0 THEN {<<>>}
    ELSE LET shorter == SeqsUpTo(S, n - 1)
         IN  shorter \cup { Append(q, x) : q \in {r \in shorter : Len(r) = n - 1}, x \in S }

England == <<"E", "n", "g", "l", "a", "n", "d">>
France == <<"F", "r", "a", "n", "c", "e">>
Italy == <<"I", "t", "a", "l", "y">>
Poland == <<"P", "o", "l", "a", "n", "d">>
Spain == <<"S", "p", "a", "i", "n">>
Germany == <<"G", "e", "r", "m", "a", "n", "y">>

\* The input of the tests.
RESULTS ==
    Join(<< Join(<<England, France, <<"4">>, <<"2">> >>, COMMA),
            Join(<<France, Italy, <<"3">>, <<"1">> >>, COMMA),
            Join(<<Poland, Spain, <<"2">>, <<"0">> >>, COMMA),
            Join(<<Germany, England, <<"2">>, <<"1">> >>, COMMA),
            Join(<<England, Spain, <<"1">>, <<"0">> >>, COMMA) >>, NL)

Inputs == { Join(ls, NL) : ls \in SeqsUpTo(GeneratedLines, MaxLines) } \cup {RESULTS}

\* ------------------------------------------------- build_scores_table
VARIABLES
    results,          \* the text handed to build_scores_table
    overflow_checks,  \* the build: TRUE panics on overflow, FALSE wraps
    scores,           \* the HashMap: team name -> TeamScores
    lineNo,           \* number of lines the loop has taken from results.lines()
    status,           \* "running", "returned" (scores handed back) or "panicked"
    panic,            \* what aborted the call, "none" while there is no panic
    a,                \* divide's first argument
    b,                \* divide's second argument
    division,         \* how the call divide(a, b) ended, Pending before it
    boards,           \* the partial scoreboards handed to merge
    merged            \* what merge gave back, Pending before it

\* #[derive(Default)] struct TeamScores
TeamScoresDefault == [goals_scored |-> 0, goals_conceded |-> 0]

\* HashMap::new()
EmptyMap == [t \in {} |-> TeamScoresDefault]

\* The statements that take one line apart: the four `next().unwrap()`, and
\* the two `parse().unwrap()`, in the order the code runs them.  Fields after
\* the fourth are never looked at.
ParseLine(line) ==
    LET f == split(line, COMMA)
        n == Len(f)
    IN  IF n < 1 THEN [ok |-> FALSE, panic |-> "UnwrapNone", field |-> 1]
        ELSE IF n < 2 THEN [ok |-> FALSE, panic |-> "UnwrapNone", field |-> 2]
        ELSE IF n < 3 THEN [ok |-> FALSE, panic |-> "UnwrapNone", field |-> 3]
        ELSE IF ~parse(f[3]).ok THEN [ok |-> FALSE, panic |-> "UnwrapErr", field |-> 3]
        ELSE IF n < 4 THEN [ok |-> FALSE, panic |-> "UnwrapNone", field |-> 4]
        ELSE IF ~parse(f[4]).ok THEN [ok |-> FALSE, panic |-> "UnwrapErr", field |-> 4]
        ELSE [ok |-> TRUE,
              team_1_name |-> f[1], team_2_name |-> f[2],
              team_1_score |-> parse(f[3]).val, team_2_score |-> parse(f[4]).val]

\* `x = y` written for `x += y`: the field takes the goals of the last record.
AddAssign_Assign(x, y, checks) == [panicked |-> FALSE, val |-> y]

\* `x += y` on u8: with overflow checks a sum past u8::MAX panics, without
\* them it wraps.
AddAssign(x, y, checks) ==
    IF x + y > U8Max
    THEN IF checks THEN [panicked |-> TRUE, val |-> x]
         ELSE [panicked |-> FALSE, val |-> (x + y) % (2 ^ U8Bits)]
    ELSE [panicked |-> FALSE, val |-> x + y]

\* An insert into a map made afresh: the entries of the other teams are lost.
or_insert_Fresh(m, name) ==
    IF name \in DOMAIN m THEN m
    ELSE [t \in {name} |-> TeamScoresDefault]

\* scores.entry(name).or_insert(TeamScores::default())
or_insert(m, name) ==
    IF name \in DOMAIN m THEN m
    ELSE [t \in DOMAIN m \cup {name} |-> IF t = name THEN TeamScoresDefault ELSE m[t]]

\* One iteration that updates team 2 only where the map holds it already.
UpdateScores_Team2IfPresent(m, rec, checks) ==
    LET t1 == rec.team_1_name
        t2 == rec.team_2_name
        m0 == or_insert(m, t1)
        a1 == AddAssign(m0[t1].goals_scored, rec.team_1_score, checks)
        m1 == [m0 EXCEPT ![t1].goals_scored = a1.val]
        a2 == AddAssign(m1[t1].goals_conceded, rec.team_2_score, checks)
        m2 == [m1 EXCEPT ![t1].goals_conceded = a2.val]
    IN  IF a1.panicked THEN [panicked |-> TRUE, scores |-> m0]
        ELSE IF a2.panicked THEN [panicked |-> TRUE, scores |-> m1]
        ELSE IF t2 \notin DOMAIN m2 THEN [panicked |-> FALSE, scores |-> m2]
        ELSE LET a3 == AddAssign(m2[t2].goals_scored, rec.team_2_score, checks)
                 m4 == [m2 EXCEPT ![t2].goals_scored = a3.val]
                 a4 == AddAssign(m4[t2].goals_conceded, rec.team_1_score, checks)
                 m5 == [m4 EXCEPT ![t2].goals_conceded = a4.val]
             IN  IF a3.panicked THEN [panicked |-> TRUE, scores |-> m2]
                 ELSE IF a4.panicked THEN [panicked |-> TRUE, scores |-> m4]
                 ELSE [panicked |-> FALSE, scores |-> m5]

\* The four `+=` of one iteration, in order; the first that panics ends it
\* and leaves the map as it was at that moment.
UpdateScores(m, rec, checks) ==
    LET t1 == rec.team_1_name
        t2 == rec.team_2_name
        m0 == or_insert(m, t1)
        a1 == AddAssign(m0[t1].goals_scored, rec.team_1_score, checks)
        m1 == [m0 EXCEPT ![t1].goals_scored = a1.val]
        a2 == AddAssign(m1[t1].goals_conceded, rec.team_2_score, checks)
        m2 == [m1 EXCEPT ![t1].goals_conceded = a2.val]
        m3 == or_insert(m2, t2)
        a3 == AddAssign(m3[t2].goals_scored, rec.team_2_score, checks)
        m4 == [m3 EXCEPT ![t2].goals_scored = a3.val]
        a4 == AddAssign(m4[t2].goals_conceded, rec.team_1_score, checks)
        m5 == [m4 EXCEPT ![t2].goals_conceded = a4.val]
    IN  IF a1.panicked THEN [panicked |-> TRUE, scores |-> m0]
        ELSE IF a2.panicked THEN [panicked |-> TRUE, scores |-> m1]
        ELSE IF a3.panicked THEN [panicked |-> TRUE, scores |-> m3]
        ELSE IF a4.panicked THEN [panicked |-> TRUE, scores |-> m4]
        ELSE [panicked |-> FALSE, scores |-> m5]

aggVars == <<results, overflow_checks, scores, lineNo, status, panic>>
otherVars == <<a, b, division, boards, merged>>

\* A call that has not ended yet.
Pending == [kind |-> "Pending"]

\* No call of divide or merge is under way.
OthersIdle ==
    /\ a = 0
    /\ b = 0
    /\ division = Pending
    /\ boards = <<>>
    /\ merged = Pending

AggInit ==
    /\ results \in Inputs
    /\ overflow_checks \in BOOLEAN
    /\ scores = EmptyMap
    /\ lineNo = 0
    /\ status = "running"
    /\ panic = "none"

\* One iteration whose line cannot be taken apart: an unwrap aborts the call
\* before the map is touched.
LoopUnwrapPanic ==
    /\ status = "running"
    /\ lineNo < Len(lines(results))
    /\ LET rec == ParseLine(lines(results)[lineNo + 1])
       IN  /\ ~rec.ok
           /\ panic' = rec.panic
    /\ lineNo' = lineNo + 1
    /\ status' = "panicked"
    /\ UNCHANGED <<results, overflow_checks, scores>>
    /\ UNCHANGED otherVars

\* One iteration in which a `+=` overflows in a build with overflow checks.
LoopOverflowPanic ==
    /\ status = "running"
    /\ lineNo < Len(lines(results))
    /\ LET rec == ParseLine(lines(results)[lineNo + 1])
       IN  /\ rec.ok
           /\ UpdateScores(scores, rec, overflow_checks).panicked
           /\ scores' = UpdateScores(scores, rec, overflow_checks).scores
    /\ lineNo' = lineNo + 1
    /\ status' = "panicked"
    /\ panic' = "AddOverflow"
    /\ UNCHANGED <<results, overflow_checks>>
    /\ UNCHANGED otherVars

\* One iteration that runs to its end.
LoopUpdate ==
    /\ status = "running"
    /\ lineNo < Len(lines(results))
    /\ LET rec == ParseLine(lines(results)[lineNo + 1])
       IN  /\ rec.ok
           /\ ~UpdateScores(scores, rec, overflow_checks).panicked
           /\ scores' = UpdateScores(scores, rec, overflow_checks).scores
    /\ lineNo' = lineNo + 1
    /\ UNCHANGED <<results, overflow_checks, status, panic>>
    /\ UNCHANGED otherVars

\* The iterator is exhausted: `scores` is the value of the call.
Return ==
    /\ status = "running"
    /\ lineNo = Len(lines(results))
    /\ status' = "returned"
    /\ UNCHANGED <<results, overflow_checks, scores, lineNo, panic>>
    /\ UNCHANGED otherVars

vars == <<results, overflow_checks, scores, lineNo, status, panic,
          a, b, division, boards, merged>>

Next ==
    \/ LoopUnwrapPanic
    \/ LoopOverflowPanic
    \/ LoopUpdate
    \/ Return

Init == AggInit /\ OthersIdle

Spec == Init /\ [][Next]_vars

\* What the caller of build_scores_table observes: the signature gives back a
\* HashMap and nothing else, so a call ends with the map or with a panic.
Outcome ==
    IF status = "returned" THEN [kind |-> "Ok", scores |-> scores]
    ELSE IF status = "panicked" THEN [kind |-> "Panic", message |-> panic]
    ELSE Pending

\* The whole call as a function of its text and of the build: the loop over
\* ls from line i on, started with map m.
RECURSIVE FoldLines(_, _, _, _)
FoldLines(ls, i, m, checks) ==
    IF i > Len(ls) THEN [status |-> "returned", scores |-> m, lineNo |-> Len(ls)]
    ELSE LET rec == ParseLine(ls[i])
         IN  IF ~rec.ok THEN [status |-> "panicked", scores |-> m, lineNo |-> i]
             ELSE LET u == UpdateScores(m, rec, checks)
                  IN  IF u.panicked
                      THEN [status |-> "panicked", scores |-> u.scores, lineNo |-> i]
                      ELSE FoldLines(ls, i + 1, u.scores, checks)

build_scores_table(text, checks) == FoldLines(lines(text), 1, EmptyMap, checks)

TypeOK ==
    /\ results \in Inputs
    /\ overflow_checks \in BOOLEAN
    /\ lineNo \in 0..Len(lines(results))
    /\ status \in {"running", "returned", "panicked"}
    /\ panic \in {"none", "UnwrapNone", "UnwrapErr", "AddOverflow"}
    /\ \A t \in DOMAIN scores :
          /\ scores[t].goals_scored \in 0..U8Max
          /\ scores[t].goals_conceded \in 0..U8Max

\* --------------------------------------------------- what the claims speak of
\* The lines of the input.
InputLines == lines(results)

FieldCount(line) == Len(split(line, COMMA))

\* A well-formed match line: four fields, both goal fields numbers.
WellFormed(line) == FieldCount(line) = 4 /\ ParseLine(line).ok

\* Goals team t scored (which = "scored") or conceded over the records of
\* ls[1..n], in unbounded arithmetic.
RECURSIVE Total(_, _, _, _)
Total(ls, n, t, which) ==
    IF n = 0 THEN 0
    ELSE LET rec == ParseLine(ls[n])
             asA == IF rec.team_1_name = t
                    THEN (IF which = "scored" THEN rec.team_1_score ELSE rec.team_2_score)
                    ELSE 0
             asB == IF rec.team_2_name = t
                    THEN (IF which = "scored" THEN rec.team_2_score ELSE rec.team_1_score)
                    ELSE 0
         IN  Total(ls, n - 1, t, which) + asA + asB

\* The team names of the records of ls[1..n].
TeamsIn(ls, n) ==
    { ParseLine(ls[i]).team_1_name : i \in 1..n } \cup
    { ParseLine(ls[i]).team_2_name : i \in 1..n }

ScoredIn(m, t) == IF t \in DOMAIN m THEN m[t].goals_scored ELSE 0
ConcededIn(m, t) == IF t \in DOMAIN m THEN m[t].goals_conceded ELSE 0

\* Some running total of the records taken so far is past the counter's range.
OverflowDue ==
    /\ \A i \in 1..lineNo : ParseLine(InputLines[i]).ok
    /\ \E t \in TeamsIn(InputLines, lineNo) :
          \/ Total(InputLines, lineNo, t, "scored") > U8Max
          \/ Total(InputLines, lineNo, t, "conceded") > U8Max

\* C1: when build_scores_table returns on well-formed lines, each team's
\* goals_scored and goals_conceded are the sums of its goals for and against
\* over all records, and the reference input gives the six reference totals.
C1_TotalsAreSums ==
    (status = "returned" /\ \A i \in 1..Len(InputLines) : WellFormed(InputLines[i]))
    => /\ \A t \in TeamsIn(InputLines, Len(InputLines)) :
             /\ t \in DOMAIN scores
             /\ scores[t].goals_scored = Total(InputLines, Len(InputLines), t, "scored")
             /\ scores[t].goals_conceded = Total(InputLines, Len(InputLines), t, "conceded")
       /\ results = RESULTS =>
             scores = [t \in {England, Spain, France, Italy, Poland, Germany} |->
                 CASE t = England -> [goals_scored |-> 6, goals_conceded |-> 4]
                   [] t = Spain   -> [goals_scored |-> 0, goals_conceded |-> 3]
                   [] t = France  -> [goals_scored |-> 5, goals_conceded |-> 5]
                   [] t = Italy   -> [goals_scored |-> 1, goals_conceded |-> 3]
                   [] t = Poland  -> [goals_scored |-> 2, goals_conceded |-> 0]
                   [] t = Germany -> [goals_scored |-> 2, goals_conceded |-> 1]]

\* The reference half of C1 alone: the tests' input gives the six totals.
ReferenceTotals ==
    (status = "returned" /\ results = RESULTS) =>
        /\ DOMAIN scores = {England, Spain, France, Italy, Poland, Germany}
        /\ scores[England] = [goals_scored |-> 6, goals_conceded |-> 4]
        /\ scores[Spain] = [goals_scored |-> 0, goals_conceded |-> 3]
        /\ scores[France] = [goals_scored |-> 5, goals_conceded |-> 5]
        /\ scores[Italy] = [goals_scored |-> 1, goals_conceded |-> 3]
        /\ scores[Poland] = [goals_scored |-> 2, goals_conceded |-> 0]
        /\ scores[Germany] = [goals_scored |-> 2, goals_conceded |-> 1]

\* C2: while the call has not panicked, and so when it returns, the keys of
\* the map are exactly the team names of the records taken so far: every such
\* name has its one entry, whether or not it was there before.
C2_KeysAreTeams ==
    status # "panicked" => DOMAIN scores = TeamsIn(InputLines, lineNo)

\* C2 witness: a call returned after three records, over three teams, one of
\* which was first met as team_2 and met again as team_1.
C2_Witness ==
    /\ status = "returned"
    /\ lineNo = 3
    /\ DOMAIN scores = {TeamA, TeamB, TeamC}
    /\ ParseLine(InputLines[1]).team_2_name = TeamB
    /\ ParseLine(InputLines[2]).team_1_name = TeamB

\* The record of the line the loop took last (lineNo >= 1).
LastLine == InputLines[lineNo]

\* The map as the lines before the last one left it.
ScoresBeforeLast ==
    FoldLines(SubSeq(InputLines, 1, lineNo - 1), 1, EmptyMap, overflow_checks).scores

\* C3: one record (A, B, g_a, g_b) with A # B, once applied, has raised
\* A.goals_scored and B.goals_conceded by exactly g_a, and B.goals_scored and
\* A.goals_conceded by exactly g_b, an absent team counting as {0, 0}.
C3_SymmetricUpdate ==
    [][ (lineNo' = lineNo + 1 /\ status' = "running"
            /\ ParseLine(InputLines[lineNo + 1]).team_1_name
                 # ParseLine(InputLines[lineNo + 1]).team_2_name)
        => LET rec == ParseLine(InputLines[lineNo + 1])
               A == rec.team_1_name
               B == rec.team_2_name
           IN  /\ ScoredIn(scores', A) = ScoredIn(scores, A) + rec.team_1_score
               /\ ConcededIn(scores', B) = ConcededIn(scores, B) + rec.team_1_score
               /\ ScoredIn(scores', B) = ScoredIn(scores, B) + rec.team_2_score
               /\ ConcededIn(scores', A) = ConcededIn(scores, A) + rec.team_2_score
      ]_vars

\* C4: once a running total is past the counter's range the call has failed
\* explicitly (here even a panic is taken for an explicit failure): it is
\* never still running, or returned, with a total that wrapped.
C4_CheckedAddition ==
    OverflowDue => Outcome.kind \in {"Err", "Panic"}

\* C5: a line that does not split into exactly four fields makes the call
\* fail (with MalformedRecord; here even a panic is taken for that failure)
\* and leaves the map as the lines before it left it.
C5_ExactlyFourFields ==
    (lineNo >= 1 /\ FieldCount(LastLine) # 4)
    => /\ \/ Outcome.kind = "Panic"
          \/ (Outcome.kind = "Err" /\ Outcome.error = "MalformedRecord")
       /\ scores = ScoresBeforeLast

\* The first of the two goal fields of a four-field line that is no
\* non-negative base-10 number, 0 when both are.
BadGoalField(line) ==
    LET f == split(line, COMMA)
    IN  IF ~parse(f[3]).ok THEN 3 ELSE IF ~parse(f[4]).ok THEN 4 ELSE 0

\* C6: a four-field line whose third or fourth field is no non-negative
\* base-10 number fails with InvalidGoalCount, a value handed back to the
\* caller that names the field and its raw text, and updates no entry.
C6_InvalidGoalCount ==
    (lineNo >= 1 /\ FieldCount(LastLine) = 4 /\ BadGoalField(LastLine) # 0)
    => /\ Outcome.kind = "Err"
       /\ Outcome.error = "InvalidGoalCount"
       /\ Outcome.field = BadGoalField(LastLine)
       /\ Outcome.raw_text = split(LastLine, COMMA)[BadGoalField(LastLine)]
       /\ scores = ScoresBeforeLast

\* Line i fails: it cannot be parsed, or its update takes a total past the
\* counter's range.
LineFails(i) ==
    \/ ~ParseLine(InputLines[i]).ok
    \/ /\ \A j \in 1..i : ParseLine(InputLines[j]).ok
       /\ \E t \in TeamsIn(InputLines, i) :
             \/ Total(InputLines, i, t, "scored") > U8Max
             \/ Total(InputLines, i, t, "conceded") > U8Max

\* C7: from the first failing line on, the call has halted at that line with
\* an error tagged with its 1-based number: no later line is taken and no map
\* is handed back as a success.
C7_FailFast ==
    \A k \in 1..lineNo :
        (LineFails(k) /\ \A j \in 1..(k - 1) : ~LineFails(j))
        => /\ lineNo = k
           /\ Outcome.kind = "Err"
           /\ Outcome.line = k

\* ------------------------------------------------------------------ divide
\* divide takes i64; the model keeps the two's complement range at this width.
DivBits == 8
I64_MIN == -(2 ^ (DivBits - 1))
I64_MAX == 2 ^ (DivBits - 1) - 1

Abs(x) == IF x < 0 THEN -x ELSE x

\* `x % y` and `x / y` on a signed integer, y # 0: the quotient is rounded
\* towards zero and the remainder has the sign of x.
Rem(x, y) == IF x < 0 THEN -(Abs(x) % Abs(y)) ELSE Abs(x) % Abs(y)
Quot(x, y) ==
    IF (x < 0) = (y < 0) THEN Abs(x) \div Abs(y) ELSE -(Abs(x) \div Abs(y))

\* fn divide: the first thing it evaluates is `a % b`, which panics for a
\* zero divisor and for MIN % -1 in every build.
divide(x, y) ==
    IF y = 0
    THEN [kind |-> "Panic",
          message |-> "attempt to calculate the remainder with a divisor of zero"]
    ELSE IF x = I64_MIN /\ y = -1
    THEN [kind |-> "Panic",
          message |-> "attempt to calculate the remainder with overflow"]
    ELSE IF Rem(x, y) = 0 THEN [kind |-> "Ok", value |-> Quot(x, y)]
    ELSE [kind |-> "Err", error |-> "NotDivisible"]

DivInit ==
    /\ a \in I64_MIN..I64_MAX
    /\ b \in I64_MIN..I64_MAX
    /\ division = Pending
    /\ results = <<>>
    /\ overflow_checks = TRUE
    /\ scores = EmptyMap
    /\ lineNo = 0
    /\ status = "running"
    /\ panic = "none"
    /\ boards = <<>>
    /\ merged = Pending

CallDivide ==
    /\ division = Pending
    /\ division' = divide(a, b)
    /\ UNCHANGED <<a, b, boards, merged>>
    /\ UNCHANGED aggVars

NextDivide == CallDivide

SpecDivide == DivInit /\ [][NextDivide]_vars

\* C10: divide(a, b) gives a value for every pair of arguments and never
\* aborts: Err(DivideByZero) for b = 0, Err(IntegerOverflow) for a = MIN and
\* b = -1, Err(NotDivisible) when b # 0 does not divide a, Ok(a / b) otherwise.
C10_DivideTotal ==
    division # Pending
    => division =
          IF b = 0 THEN [kind |-> "Err", error |-> "DivideByZero"]
          ELSE IF a = I64_MIN /\ b = -1 THEN [kind |-> "Err", error |-> "IntegerOverflow"]
          ELSE IF \E q \in I64_MIN..I64_MAX : q * b = a
               THEN [kind |-> "Ok", value |-> CHOOSE q \in I64_MIN..I64_MAX : q * b = a]
          ELSE [kind |-> "Err", error |-> "NotDivisible"]

\* What divide does give, case by case: it agrees with C10 wherever b # 0 and
\* (a, b) # (MIN, -1), and panics in the two remaining cases.
DivideAsCoded ==
    division # Pending
    => IF b = 0 \/ (a = I64_MIN /\ b = -1) THEN division.kind = "Panic"
       ELSE IF \E q \in I64_MIN..I64_MAX : q * b = a
            THEN division = [kind |-> "Ok", value |-> CHOOSE q \in I64_MIN..I64_MAX : q * b = a]
       ELSE division = [kind |-> "Err", error |-> "NotDivisible"]

\* ------------------------------------------------------------------- merge
\* Fields of the partial scoreboards handed to merge run up to this.
MaxMergeGoal == 1
\* Number of shards an input is cut into.
NumShards == 2

RECURSIVE SumOver(_, _, _, _)
SumOver(bs, i, t, which) ==
    IF i > Len(bs) THEN 0
    ELSE (IF which = "scored" THEN ScoredIn(bs[i], t) ELSE ConcededIn(bs[i], t))
         + SumOver(bs, i + 1, t, which)

\* For each team of the first board that has it, that board's entry.
merge_FirstWins(bs) ==
    [t \in UNION {DOMAIN bs[i] : i \in 1..Len(bs)} |->
        bs[CHOOSE i \in 1..Len(bs) :
              t \in DOMAIN bs[i] /\ \A j \in 1..(i - 1) : t \notin DOMAIN bs[j]][t]]

\* merge(boards): the union of the keys, and per team the component-wise sum
\* over the boards that hold it.
merge(bs) ==
    [t \in UNION {DOMAIN bs[i] : i \in 1..Len(bs)} |->
        [goals_scored |-> SumOver(bs, 1, t, "scored"),
         goals_conceded |-> SumOver(bs, 1, t, "conceded")]]

MergeTeams == {TeamA, TeamB}
MergeScores ==
    [goals_scored : 0..MaxMergeGoal, goals_conceded : {0, U8Max}]
MergeBoards ==
    UNION { [ts -> MergeScores] : ts \in SUBSET MergeTeams }

MergeInit ==
    /\ boards \in [1..3 -> MergeBoards]
    /\ merged = Pending
    /\ a = 0
    /\ b = 0
    /\ division = Pending
    /\ results = <<>>
    /\ overflow_checks = TRUE
    /\ scores = EmptyMap
    /\ lineNo = 0
    /\ status = "running"
    /\ panic = "none"

CallMerge ==
    /\ merged = Pending
    /\ merged' = [kind |-> "Ok", board |-> merge(boards)]
    /\ UNCHANGED <<a, b, division, boards>>
    /\ UNCHANGED aggVars

NextMerge == CallMerge

SpecMerge == MergeInit /\ [][NextMerge]_vars

\* The lines of ls that asg sends to shard k, in their order.
RECURSIVE ShardOf(_, _, _, _)
ShardOf(ls, asg, k, i) ==
    IF i > Len(ls) THEN <<>>
    ELSE (IF asg[i] = k THEN <<ls[i]>> ELSE <<>>) \o ShardOf(ls, asg, k, i + 1)

\* C8: for well-formed lines, the map the sequential call returns is the
\* merge of the maps returned for the shards of any partition of the lines,
\* each shard aggregated on its own from an empty map.
C8_ShardsMergeToWhole ==
    (status = "returned" /\ \A i \in 1..Len(InputLines) : WellFormed(InputLines[i]))
    => \A asg \in [1..Len(InputLines) -> 1..NumShards] :
          LET part(k) == build_scores_table(Join(ShardOf(InputLines, asg, k, 1), NL),
                                            overflow_checks)
          IN  /\ \A k \in 1..NumShards : part(k).status = "returned"
              /\ merge([k \in 1..NumShards |-> part(k).scores]) = scores

Perms3 == { p \in [1..3 -> 1..3] : \A i, j \in 1..3 : p[i] = p[j] => i = j }

\* C9: merge is associative and commutative: merging two of three boards
\* first, on either side, and merging the three in any order, all give what
\* merge of the three gives.
C9_MergeAssocComm ==
    merged # Pending
    => /\ merge(<<merge(<<boards[1], boards[2]>>), boards[3]>>) = merged.board
       /\ merge(<<boards[1], merge(<<boards[2], boards[3]>>)>>) = merged.board
       /\ \A p \in Perms3 : merge([i \in 1..3 |-> boards[p[i]]]) = merged.board

\* C9 witness: three different boards were merged, a team is held by two of
\* them with different totals and another team by one of them only.
C9_Witness ==
    /\ merged # Pending
    /\ boards[1] # boards[2] /\ boards[2] # boards[3] /\ boards[1] # boards[3]
    /\ TeamA \in DOMAIN boards[1] /\ TeamA \in DOMAIN boards[2]
    /\ boards[1][TeamA] # boards[2][TeamA]
    /\ TeamB \in DOMAIN boards[3] /\ TeamB \notin DOMAIN boards[1]
    /\ TeamB \notin DOMAIN boards[2]
    /\ merged.board[TeamA].goals_conceded > U8Max

\* C11: entries never decrease: a record, once applied, removes no entry and
\* leaves every goals_scored and goals_conceded at least what it was.
C11_NeverDecrease ==
    [][ (lineNo' = lineNo + 1 /\ status' = "running")
        => \A t \in DOMAIN scores :
              /\ t \in DOMAIN scores'
              /\ scores'[t].goals_scored >= scores[t].goals_scored
              /\ scores'[t].goals_conceded >= scores[t].goals_conceded
      ]_vars

\* The half of C11 that the code keeps: no step removes an entry.
EntriesNeverRemoved ==
    [][ \A t \in DOMAIN scores : t \in DOMAIN scores' ]_vars

\* The orderings of n lines.
Perms(n) == { p \in [1..n -> 1..n] : \A i, j \in 1..n : p[i] = p[j] => i = j }

\* C12: the scoreboard does not depend on the order of the records: when
\* every line is a record, the call on any permutation of the lines ends the
\* way this call ended, and where this one returned a map, with the same
\* teams and the same goals_scored and goals_conceded for each.
C12_OrderIndependent ==
    LET ls == InputLines
        n == Len(ls)
    IN  (status # "running" /\ \A i \in 1..n : ParseLine(ls[i]).ok)
        => \A p \in Perms(n) :
              LET other == FoldLines([i \in 1..n |-> ls[p[i]]], 1, EmptyMap,
                                     overflow_checks)
              IN  /\ other.status = status
                  /\ status = "returned" => other.scores = scores

\* C12 witness: a call returned after three different records that all
\* involve team A, once as team_2, with totals that differ per record.
C12_Witness ==
    /\ status = "returned"
    /\ lineNo = 3
    /\ InputLines[1] # InputLines[2]
    /\ InputLines[2] # InputLines[3]
    /\ InputLines[1] # InputLines[3]
    /\ \A i \in 1..3 : TeamA \in {ParseLine(InputLines[i]).team_1_name,
                                  ParseLine(InputLines[i]).team_2_name}
    /\ \E i \in 1..3 : ParseLine(InputLines[i]).team_2_name = TeamA
    /\ scores[TeamA].goals_scored > 1

\* The next line is a self-match record, and this step takes it.
TakesSelfMatch ==
    /\ lineNo' = lineNo + 1
    /\ ParseLine(InputLines[lineNo + 1]).ok
    /\ ParseLine(InputLines[lineNo + 1]).team_1_name
         = ParseLine(InputLines[lineNo + 1]).team_2_name

\* What a self-match for T with goals g_a, g_b is to do to the map: one
\* entry for T, both of its totals up by g_a + g_b, nothing else touched.
SelfMatchApplied ==
    LET rec == ParseLine(InputLines[lineNo + 1])
        T == rec.team_1_name
        g == rec.team_1_score + rec.team_2_score
    IN  /\ status' = "running"
        /\ DOMAIN scores' = DOMAIN scores \cup {T}
        /\ scores'[T].goals_scored = ScoredIn(scores, T) + g
        /\ scores'[T].goals_conceded = ConcededIn(scores, T) + g

\* C13: a self-match record (team_a = team_b = T, goals g_a, g_b) is taken
\* without error and leaves one entry for T whose goals_scored and
\* goals_conceded are each g_a + g_b more than before.
C13_SelfMatch ==
    [][ TakesSelfMatch => SelfMatchApplied ]_vars

\* C13 where no total of T passes the counter's range: there the code does
\* what the claim says.
SelfMatchWithinRange ==
    [][ (/\ TakesSelfMatch
         /\ LET rec == ParseLine(InputLines[lineNo + 1])
                T == rec.team_1_name
                g == rec.team_1_score + rec.team_2_score
            IN  ScoredIn(scores, T) + g <= U8Max /\ ConcededIn(scores, T) + g <= U8Max)
        => SelfMatchApplied ]_vars

\* The teams a line names, none when it cannot be parsed.
TeamsOfLine(line) ==
    IF ParseLine(line).ok
    THEN {ParseLine(line).team_1_name, ParseLine(line).team_2_name}
    ELSE {}

\* C14: taking one record changes only the entries of its team_a and team_b:
\* every other entry is still there with the same goals_scored and
\* goals_conceded, and no key but team_a and team_b is added.
C14_Frame ==
    [][ lineNo' = lineNo + 1
        => LET touched == TeamsOfLine(InputLines[lineNo + 1])
           IN  /\ \A t \in DOMAIN scores \ touched :
                     t \in DOMAIN scores' /\ scores'[t] = scores[t]
               /\ DOMAIN scores' \subseteq DOMAIN scores \cup touched
      ]_vars

\* C14 witness: the last record, between A and B, changed the map while team
\* C kept the entry, with 255 goals conceded, that it had before.
C14_Witness ==
    /\ status # "panicked"
    /\ lineNo >= 2
    /\ TeamsOfLine(LastLine) = {TeamA, TeamB}
    /\ scores # ScoresBeforeLast
    /\ TeamC \in DOMAIN ScoresBeforeLast
    /\ TeamB \notin DOMAIN ScoresBeforeLast
    /\ scores[TeamC] = ScoresBeforeLast[TeamC]
    /\ scores[TeamC].goals_conceded = U8Max

====
